---- MODULE Spec2Model ----
(***************************************************************************)
(* Video deepfake-analysis pipeline of backend/app/services/               *)
(* deepfake_detection.py: DeepfakeDetectionService.detect_deepfake,        *)
(* _analyze_video (frame walk, sampling, accumulators), _analyze_frame     *)
(* (extractor adaptor), _calculate_landmark_stability and                  *)
(* _interpret_analysis (verdict synthesis).                                *)
(*                                                                         *)
(* Floats are modelled as exact rationals <<num, den>> (den > 0, lowest    *)
(* terms), so every comparison against a threshold is the comparison the   *)
(* code makes, up to IEEE rounding of values that are not representable.   *)
(***************************************************************************)
EXTENDS Integers, Sequences, FiniteSets, TLC

(***************************************************************************)
(* Rational arithmetic (Python float / numpy arithmetic, exact).  An       *)
(* operator binds each operand to its value once (x \in {operand}), as a   *)
(* call evaluates its arguments once, so that a nested expression is not   *)
(* evaluated again at every reference to it.                               *)
(***************************************************************************)
Abs(x) == IF x < 0 THEN -x ELSE x

RECURSIVE GCD(_, _)
GCD(a, b) ==
    IF b = 0 THEN a ELSE CHOOSE g \in { GCD(y, x % y) : x \in {a}, y \in {b} } : TRUE

RNorm(n, d) ==
    LET g == GCD(Abs(n), d)
    IN  IF n = 0 THEN <<0, 1>> ELSE <<n \div g, d \div g>>

R(n, d)    == RNorm(n, d)
\* sums over the least common denominator, products cross-reduced, so that the
\* intermediate integers stay small
RAdd(x, y) ==
    CHOOSE r \in { LET g == GCD(a[2], b[2])
                   IN  RNorm(a[1] * (b[2] \div g) + b[1] * (a[2] \div g),
                             (a[2] \div g) * b[2]) : a \in {x}, b \in {y} } : TRUE
RNeg(a)    == <<-a[1], a[2]>>
RSub(a, b) == RAdd(a, RNeg(b))
RMul(x, y) ==
    CHOOSE r \in { LET g1 == GCD(Abs(a[1]), b[2])
                       g2 == GCD(Abs(b[1]), a[2])
                   IN  RNorm((a[1] \div g1) * (b[1] \div g2),
                             (a[2] \div g2) * (b[2] \div g1)) : a \in {x}, b \in {y} } : TRUE
RInv(x)    ==
    CHOOSE r \in { IF a[1] < 0 THEN <<-a[2], -a[1]>> ELSE <<a[2], a[1]>> : a \in {x} } : TRUE
RDiv(a, b) == RMul(a, RInv(b))
RLt(x, y)  == \E a \in {x}, b \in {y} : a[1] * b[2] < b[1] * a[2]
RLe(x, y)  == \E a \in {x}, b \in {y} : a[1] * b[2] <= b[1] * a[2]
RGt(a, b)  == RLt(b, a)
RGe(a, b)  == RLe(b, a)
RMin(x, y) == CHOOSE r \in { IF RLe(a, b) THEN a ELSE b : a \in {x}, b \in {y} } : TRUE
RMax(x, y) == CHOOSE r \in { IF RGe(a, b) THEN a ELSE b : a \in {x}, b \in {y} } : TRUE

Zero == <<0, 1>>
One  == <<1, 1>>
Half == <<1, 2>>

\* sum of s[lo..hi], by halves (exact, so the order of additions is immaterial)
RECURSIVE RSumRange(_, _, _)
RSumRange(s, lo, hi) ==
    IF lo > hi THEN Zero
    ELSE IF lo = hi THEN s[lo]
    ELSE CHOOSE r \in { RAdd(RSumRange(s, lo, mid), RSumRange(s, mid + 1, hi)) :
                             mid \in {(lo + hi) \div 2} } : TRUE

RSum(s) == CHOOSE r \in { RSumRange(t, 1, Len(t)) : t \in {s} } : TRUE

\* np.mean of a non-empty list
NpMean(s) == CHOOSE r \in { RDiv(RSum(t), <<Len(t), 1>>) : t \in {s} } : TRUE

\* np.var of a non-empty list: population variance, mean of squared deviations
NpVar(s) ==
    CHOOSE r \in { NpMean([i \in 1..Len(t) |-> RMul(RSub(t[i], m), RSub(t[i], m))]) :
                       t \in {s}, m \in {NpMean(s)} } : TRUE

(***************************************************************************)
(* Program constants.                                                      *)
(***************************************************************************)
\* while ... analyzed_frames < 50
MaxAnalyzedFrames == 50
\* sample_interval = max(1, frame_count // 50)
SampleTarget == 50
\* if analysis['analyzed_frames'] < 5
MinAnalyzedFrames == 5
\* stability = 1.0 / (1.0 + avg_movement * 100)
MovementScale == 100

VarianceThreshold  == R(1, 10)      \* quality_variance > 0.1
StabilityThreshold == R(7, 10)      \* landmark_stability < 0.7
QualityHigh        == R(95, 100)    \* avg_quality > 0.95
QualityLow         == R(3, 10)      \* avg_quality < 0.3
FakeRatio          == R(6, 10)      \* suspicion_ratio >= 0.6
RealRatio          == R(3, 10)      \* suspicion_ratio <= 0.3
ConfidenceCap      == R(9, 10)      \* min(0.9, ...)
ConfidenceBase     == R(5, 10)      \* 0.5 + ...
ConfidenceGain     == R(4, 10)      \* ... * 0.4
DefaultScore       == R(5, 10)      \* detection.score[0] if detection.score else 0.5

\* key_indices of _calculate_landmark_stability
key_indices == <<0, 17, 33, 61, 78, 93, 132, 164, 172, 187>>

Verdicts == {"REAL", "FAKE", "INCONCLUSIVE"}

\* Python None
None == [none |-> TRUE]

(***************************************************************************)
(* _interpret_analysis: the Verdict Synthesizer.                           *)
(***************************************************************************)
\* analysis.get(key, default)
Get(analysis, key, default) ==
    IF key \in DOMAIN analysis THEN analysis[key] ELSE default

IndicatorA(analysis) ==
    RGt(Get(analysis, "quality_variance", Zero), VarianceThreshold)

\* mutant: the comparison turned round
IndicatorB_Inverted(analysis) ==
    RGt(Get(analysis, "landmark_stability", One), StabilityThreshold)

IndicatorB(analysis) ==
    RLt(Get(analysis, "landmark_stability", One), StabilityThreshold)

\* mutant: the elif branch (very low quality) forgotten
IndicatorC_HighOnly(analysis) ==
    RGt(Get(analysis, "average_face_quality", Half), QualityHigh)

\* if avg_quality > 0.95: += 1   elif avg_quality < 0.3: += 1
IndicatorC(analysis) ==
    LET avg_quality == Get(analysis, "average_face_quality", Half)
    IN  IF RGt(avg_quality, QualityHigh) THEN TRUE
        ELSE RLt(avg_quality, QualityLow)

B2N(b) == IF b THEN 1 ELSE 0

suspicious_indicators(analysis) ==
    B2N(IndicatorA(analysis)) + B2N(IndicatorB(analysis)) + B2N(IndicatorC(analysis))

\* mutant: the increments of total_indicators left out, the total still at
\* its initial value
total_indicators_None == 1 - 1

\* total_indicators += 1, three times
total_indicators == 1 + 1 + 1

\* mutant: the reassuring branch's formula pasted into the suspicious one
FakeConfidence_Swapped(suspicion_ratio) ==
    RMin(ConfidenceCap,
         RAdd(ConfidenceBase, RMul(RSub(One, suspicion_ratio), ConfidenceGain)))

\* mutant: the count of fired indicators used where the ratio belongs, no cap
FakeConfidence_Uncapped(suspicion_ratio) ==
    RAdd(ConfidenceBase,
         RMul(RMul(suspicion_ratio, <<1 + 1 + 1, 1>>), ConfidenceGain))

FakeConfidence(suspicion_ratio) ==
    RMin(ConfidenceCap, RAdd(ConfidenceBase, RMul(suspicion_ratio, ConfidenceGain)))

RealConfidence(suspicion_ratio) ==
    RMin(ConfidenceCap,
         RAdd(ConfidenceBase, RMul(RSub(One, suspicion_ratio), ConfidenceGain)))

Fuse(analysis) ==
    LET fired == suspicious_indicators(analysis)
        suspicion_ratio == R(fired, total_indicators)
    IN  IF RGe(suspicion_ratio, FakeRatio)
        THEN [verdict |-> "FAKE",
              confidence |-> FakeConfidence(suspicion_ratio),
              explanation |-> [text |-> "Video shows deepfake indicators",
                               fired |-> fired, total |-> total_indicators,
                               quality_variance |-> Get(analysis, "quality_variance", Zero),
                               landmark_stability |-> Get(analysis, "landmark_stability", One)]]
        ELSE IF RLe(suspicion_ratio, RealRatio)
        THEN [verdict |-> "REAL",
              confidence |-> RealConfidence(suspicion_ratio),
              explanation |-> [text |-> "Video appears authentic",
                               fired |-> fired, total |-> total_indicators]]
        ELSE [verdict |-> "INCONCLUSIVE",
              confidence |-> Half,
              explanation |-> [text |-> "Mixed indicators",
                               fired |-> fired, total |-> total_indicators]]

\* mutant: the gate one frame too low
InsufficientGate_OffByOne(analysis) == analysis["analyzed_frames"] < MinAnalyzedFrames - 1

InsufficientGate(analysis) == analysis["analyzed_frames"] < MinAnalyzedFrames

interpret_analysis(analysis) ==
    IF "error" \in DOMAIN analysis
    THEN [verdict |-> "INCONCLUSIVE", confidence |-> Zero,
          explanation |-> [text |-> "Analysis error", error |-> analysis["error"]]]
    ELSE IF InsufficientGate(analysis)
    THEN [verdict |-> "INCONCLUSIVE", confidence |-> Zero,
          explanation |-> [text |-> "Insufficient frames analyzed for reliable detection"]]
    ELSE IF total_indicators = 0
    THEN [verdict |-> "INCONCLUSIVE", confidence |-> Zero,
          explanation |-> [text |-> "Unable to analyze video content"]]
    ELSE Fuse(analysis)

(***************************************************************************)
(* Landmark lists.  A list returned by the landmark model is represented   *)
(* by its length and a shift: point idx of the list lies at                *)
(* (idx + 3*shift, 2*idx + 4*shift) in units of 1/1000 of the frame, so    *)
(* the distance between the same point of two lists is 5*|shift difference|*)
(* and every Euclidean norm is rational.                                   *)
(***************************************************************************)
Landmarks(len, shift) == [len |-> len, shift |-> shift]

\* len(landmarks)
LenL(l) == l.len

\* landmarks[idx][:2], in units of 1/1000
PointXY(l, idx) == <<idx + 3 * l.shift, 2 * idx + 4 * l.shift>>

\* not landmarks: None or an empty list
Falsy(l) == l = None \/ LenL(l) = 0

ISqrt(n) == CHOOSE r \in 0..n : r * r <= n /\ (r + 1) * (r + 1) > n

\* np.linalg.norm(curr_point - prev_point)
Movement(prev, curr, idx) ==
    LET p  == PointXY(prev, idx)
        c  == PointXY(curr, idx)
        dx == c[1] - p[1]
        dy == c[2] - p[2]
    IN  CHOOSE m \in {R(ISqrt(d), 1000) : d \in {dx * dx + dy * dy}} : TRUE

\* movements of the key indices present in both lists, in key order
Movements(prev, curr) ==
    CHOOSE m \in { [i \in 1..Len(present) |-> Movement(p, c, present[i])] :
                       p \in {prev}, c \in {curr},
                       present \in {SelectSeq(key_indices,
                                              LAMBDA idx : idx < LenL(prev)
                                                           /\ idx < LenL(curr))} } : TRUE

\* mutant: the inversion and the clamp forgotten
calculate_landmark_stability_Raw(prev_landmarks, curr_landmarks) ==
    IF Falsy(prev_landmarks) \/ Falsy(curr_landmarks) THEN One
    ELSE LET movements == Movements(prev_landmarks, curr_landmarks)
         IN  IF movements = <<>> THEN One
             ELSE RAdd(One, RMul(NpMean(movements), <<MovementScale, 1>>))

calculate_landmark_stability(prev_landmarks, curr_landmarks) ==
    IF Falsy(prev_landmarks) \/ Falsy(curr_landmarks) THEN One
    ELSE LET movements == Movements(prev_landmarks, curr_landmarks)
         IN  IF movements = <<>> THEN One
             ELSE LET avg_movement == NpMean(movements)
                      stability == RDiv(One, RAdd(One, RMul(avg_movement,
                                                            <<MovementScale, 1>>)))
                  IN  RMin(One, RMax(Zero, stability))

(***************************************************************************)
(* _analyze_frame: the Face Feature Extractor adaptor.  A frame carries    *)
(* what the collaborators do with it: whether cap.read decodes it or       *)
(* raises, whether extraction raises, the detector's detections and the    *)
(* landmark model's multi_face_landmarks.                                  *)
(***************************************************************************)
Frame(ret, read_raises, extract_raises, detections, mesh) ==
    [ret |-> ret, read_raises |-> read_raises, extract_raises |-> extract_raises,
     detections |-> detections, multi_face_landmarks |-> mesh]

\* detection.score[0] if detection.score else 0.5
FaceQuality(detection) ==
    IF detection.score # <<>> THEN detection.score[1] ELSE DefaultScore

ExtractFailed == [has_face |-> FALSE, face_quality |-> Zero, landmarks |-> None]

\* mutant: a face is reported when either model found one
analyze_frame_EitherModel(frame) ==
    IF frame.extract_raises THEN ExtractFailed
    ELSE [has_face     |-> frame.detections # <<>> \/ frame.multi_face_landmarks # <<>>,
          face_quality |-> IF frame.detections # <<>>
                           THEN FaceQuality(frame.detections[1]) ELSE Zero,
          landmarks    |-> IF frame.multi_face_landmarks # <<>>
                           THEN frame.multi_face_landmarks[1] ELSE None,
          face_count   |-> Len(frame.detections)]

\* mutant: no try/except around the extraction; what was computed is used
analyze_frame_IgnoresRaise(frame) ==
    [has_face     |-> frame.detections # <<>>,
     face_quality |-> IF frame.detections # <<>>
                      THEN FaceQuality(frame.detections[1]) ELSE Zero,
     landmarks    |-> IF frame.multi_face_landmarks # <<>>
                      THEN frame.multi_face_landmarks[1] ELSE None,
     face_count   |-> Len(frame.detections)]

analyze_frame(frame) ==
    IF frame.extract_raises THEN ExtractFailed
    ELSE [has_face     |-> frame.detections # <<>>,
          face_quality |-> IF frame.detections # <<>>
                           THEN FaceQuality(frame.detections[1]) ELSE Zero,
          landmarks    |-> IF frame.multi_face_landmarks # <<>>
                           THEN frame.multi_face_landmarks[1] ELSE None,
          face_count   |-> Len(frame.detections)]

(***************************************************************************)
(* Inputs: the videos a call may be given.  A video is what the Frame      *)
(* Source does with the file: whether it opens, the CAP_PROP_FRAME_COUNT   *)
(* it reports (0 when unknown, and not necessarily the real number of      *)
(* frames), and its frames, a pattern of frame kinds repeated over the     *)
(* real length of the video.                                               *)
(***************************************************************************)
\* longest video walked
MaxVideoLen == 60
\* longest repeated pattern of frame kinds
MaxPeriod == 2
\* detect_deepfake calls in flight at once
MaxCalls == 2
\* length of the videos analysed side by side
MaxConcFrames == 2

FullMesh == 478          \* landmarks of FaceMesh(refine_landmarks=True)

\* FaceDetection(min_detection_confidence=0.5): a reported score is >= 0.5
ScoreHigh == R(1, 1)
ScoreMid  == R(3, 5)

Detection(score) == [score |-> score]

FrameKinds ==
    { Frame(FALSE, FALSE, FALSE, <<>>, <<>>),                       \* undecodable
      Frame(FALSE, TRUE,  FALSE, <<>>, <<>>),                       \* cap.read raises
      Frame(TRUE,  FALSE, TRUE,  <<Detection(<<ScoreHigh>>)>>, <<>>), \* a face, and
                                                  \* face_mesh.process raises
      Frame(TRUE,  FALSE, FALSE, <<>>, <<>>),                       \* no face
      Frame(TRUE,  FALSE, FALSE, <<>>, <<Landmarks(FullMesh, 1)>>), \* mesh only
      Frame(TRUE,  FALSE, FALSE, <<Detection(<<ScoreHigh>>)>>,
                                 <<Landmarks(FullMesh, 0)>>),
      Frame(TRUE,  FALSE, FALSE, <<Detection(<<ScoreHigh>>)>>,
                                 <<Landmarks(FullMesh, 2)>>),
      Frame(TRUE,  FALSE, FALSE, <<Detection(<<ScoreMid>>), Detection(<<ScoreHigh>>)>>,
                                 <<Landmarks(FullMesh, 0)>>),
      Frame(TRUE,  FALSE, FALSE, <<Detection(<<>>)>>, <<>>) }       \* face, no mesh

Patterns == UNION { [1..p -> FrameKinds] : p \in 1..MaxPeriod }

VideoLens == {0, MinAnalyzedFrames - 1, MinAnalyzedFrames, MaxVideoLen}

\* 0 or -1 when the container does not tell, n when accurate, or another number
ReportedCounts(n) == {-1, 0, n, 2 * SampleTarget}

Unopenable == [opens |-> FALSE, frame_count |-> 0, nframes |-> 0, pattern |-> <<>>]

Videos ==
    {Unopenable} \cup
    UNION { { [opens |-> TRUE, frame_count |-> c, nframes |-> n, pattern |-> pat] :
                c \in ReportedCounts(n), pat \in Patterns } : n \in VideoLens }

NoVideo == [opens |-> FALSE, frame_count |-> 0, nframes |-> 0, pattern |-> <<>>,
            none |-> TRUE]

\* frame number idx of the video (idx < nframes)
FrameAt(v, idx) == v.pattern[(idx % Len(v.pattern)) + 1]

\* the Frame Source has another frame at idx
HasFrame(v, idx) == idx < v.nframes

\* the requests whose detect_deepfake calls overlap, one executor thread each
Calls == 1..MaxCalls

\* the videos they analyse: a face with landmarks in every frame, still or
\* moving, or in every other frame
ConcVideos ==
    { [opens |-> TRUE, frame_count |-> MaxConcFrames, nframes |-> MaxConcFrames,
       pattern |-> pat] :
        pat \in { <<Frame(TRUE, FALSE, FALSE, <<Detection(<<ScoreHigh>>)>>,
                          <<Landmarks(FullMesh, 0)>>)>>,
                  <<Frame(TRUE, FALSE, FALSE, <<Detection(<<ScoreHigh>>)>>,
                          <<Landmarks(FullMesh, 0)>>),
                    Frame(TRUE, FALSE, FALSE, <<>>, <<>>)>>,
                  <<Frame(TRUE, FALSE, FALSE, <<Detection(<<ScoreHigh>>)>>,
                          <<Landmarks(FullMesh, 0)>>),
                    Frame(TRUE, FALSE, FALSE, <<Detection(<<ScoreMid>>)>>,
                          <<Landmarks(FullMesh, 2)>>)>> } }

(***************************************************************************)
(* State.                                                                  *)
(***************************************************************************)
VARIABLES
    is_initialized,             \* self.is_initialized
    face_mesh,                  \* self.face_mesh: "none" or "model"
    face_detection,             \* self.face_detection: "none" or "model"
    pc,                         \* position of the detect_deepfake call
    video,                      \* the video at video_path
    cap,                        \* the capture handle: "none", "closed", "open", "released"
    sample_interval,
    analyzed_frames,
    face_quality_scores,
    landmark_stability_scores,
    previous_landmarks,
    frame_idx,
    analysis_result,            \* the dict _analyze_video returns
    outcome,                    \* what detect_deepfake returned or raised
    opens,                      \* calls of cv2.VideoCapture
    reads,                      \* calls of cap.read
    submitted,                  \* indices of the frames given to _analyze_frame
    calls,                      \* the _analyze_video workers running side by side
    runner,                     \* the thread that runs the call: "loop" or "worker"
    request                     \* the verify_video request in front of the call

service == <<is_initialized, face_mesh, face_detection>>
accumulator == <<analyzed_frames, face_quality_scores, landmark_stability_scores,
                 previous_landmarks>>
walk == <<sample_interval, frame_idx, reads, submitted>>
vars == <<is_initialized, face_mesh, face_detection, pc, video, cap, sample_interval,
          analyzed_frames, face_quality_scores, landmark_stability_scores,
          previous_landmarks, frame_idx, analysis_result, outcome, opens, reads,
          submitted,
          calls, runner, request>>

NoOutcome == [kind |-> "none"]
Returned(r) == [kind |-> "returned", verdict |-> r.verdict,
                confidence |-> r.confidence, explanation |-> r.explanation]
Raised(e) == [kind |-> "raised", exception |-> e]

\* a worker thread of the executor that runs no _analyze_video
IdleCall ==
    [pc |-> "idle", video |-> NoVideo, cap |-> "none", sample_interval |-> 0,
     analyzed_frames |-> 0, face_quality_scores |-> <<>>,
     landmark_stability_scores |-> <<>>, previous_landmarks |-> None,
     frame_idx |-> 0, reads |-> 0, cancelled |-> FALSE, analysis_result |-> None]

\* detect_deepfake called by no verify_video request
NoRequest ==
    [pc |-> "none", filename |-> <<>>, size |-> 0, temp_file |-> "none",
     status |-> 0, body |-> None]

\* the state of a call that has not started its walk
Fresh ==
    /\ calls = [i \in Calls |-> IdleCall]
    /\ runner = "loop"
    /\ pc = "idle"
    /\ video = NoVideo
    /\ cap = "none"
    /\ sample_interval = 0
    /\ analyzed_frames = 0
    /\ face_quality_scores = <<>>
    /\ landmark_stability_scores = <<>>
    /\ previous_landmarks = None
    /\ frame_idx = 0
    /\ analysis_result = None
    /\ outcome = NoOutcome
    /\ opens = 0
    /\ reads = 0
    /\ submitted = <<>>

\* __init__
Init ==
    /\ is_initialized = FALSE
    /\ face_mesh = "none"
    /\ face_detection = "none"
    /\ Fresh
    /\ request = NoRequest

(***************************************************************************)
(* Pieces of _analyze_video and detect_deepfake.                           *)
(***************************************************************************)
Max(a, b) == IF a >= b THEN a ELSE b

\* sample_interval = max(1, frame_count // 50)
SampleInterval(frame_count) == Max(1, frame_count \div SampleTarget)

\* mutant: the isOpened check after VideoCapture left out
OpenFailed_Unchecked(v) == FALSE

\* if not cap.isOpened(): raise ValueError("Could not open video file")
OpenFailed(v) == ~v.opens

\* mutant: <= where < belongs
LoopCond_Inclusive(c, n) == c = "open" /\ n <= MaxAnalyzedFrames

\* while cap.isOpened() and analyzed_frames < 50
LoopCond(c, n) == c = "open" /\ n < MaxAnalyzedFrames

\* mutant: frames counted from 1
IsSampled_FromOne(idx, interval) == (idx + 1) % interval = 0

\* if frame_idx % sample_interval == 0
IsSampled(idx, interval) == idx % interval = 0

\* mutant: analyzed_frames += 1 outside "if frame_analysis['has_face']"
Observe_CountsAll(acc, obs) ==
    IF obs.has_face
    THEN [analyzed_frames |-> acc.analyzed_frames + 1,
          face_quality_scores |-> Append(acc.face_quality_scores, obs.face_quality),
          landmark_stability_scores |->
              IF acc.previous_landmarks # None
              THEN Append(acc.landmark_stability_scores,
                          calculate_landmark_stability(acc.previous_landmarks,
                                                       obs.landmarks))
              ELSE acc.landmark_stability_scores,
          previous_landmarks |-> obs.landmarks]
    ELSE [acc EXCEPT !.analyzed_frames = acc.analyzed_frames + 1]

\* mutant: previous_landmarks kept when the current frame has no landmarks
Observe_KeepsOlder(acc, obs) ==
    IF obs.has_face
    THEN [analyzed_frames |-> acc.analyzed_frames + 1,
          face_quality_scores |-> Append(acc.face_quality_scores, obs.face_quality),
          landmark_stability_scores |->
              IF acc.previous_landmarks # None
              THEN Append(acc.landmark_stability_scores,
                          calculate_landmark_stability(acc.previous_landmarks,
                                                       obs.landmarks))
              ELSE acc.landmark_stability_scores,
          previous_landmarks |-> IF obs.landmarks # None THEN obs.landmarks
                                 ELSE acc.previous_landmarks]
    ELSE acc

\* mutant: face_quality_scores.append outside "if frame_analysis['has_face']"
Observe_AppendsAll(acc, obs) ==
    IF obs.has_face
    THEN [analyzed_frames |-> acc.analyzed_frames + 1,
          face_quality_scores |-> Append(acc.face_quality_scores, obs.face_quality),
          landmark_stability_scores |->
              IF acc.previous_landmarks # None
              THEN Append(acc.landmark_stability_scores,
                          calculate_landmark_stability(acc.previous_landmarks,
                                                       obs.landmarks))
              ELSE acc.landmark_stability_scores,
          previous_landmarks |-> obs.landmarks]
    ELSE [acc EXCEPT !.face_quality_scores = Append(acc.face_quality_scores,
                                                    obs.face_quality)]

\* the body of "if frame_idx % sample_interval == 0", after _analyze_frame:
\* the accumulator after the observation obs
Observe(acc, obs) ==
    IF obs.has_face
    THEN [analyzed_frames |-> acc.analyzed_frames + 1,
          face_quality_scores |-> Append(acc.face_quality_scores, obs.face_quality),
          landmark_stability_scores |->
              IF acc.previous_landmarks # None
              THEN Append(acc.landmark_stability_scores,
                          calculate_landmark_stability(acc.previous_landmarks,
                                                       obs.landmarks))
              ELSE acc.landmark_stability_scores,
          previous_landmarks |-> obs.landmarks]
    ELSE acc

Acc == [analyzed_frames |-> analyzed_frames,
        face_quality_scores |-> face_quality_scores,
        landmark_stability_scores |-> landmark_stability_scores,
        previous_landmarks |-> previous_landmarks]

\* result = {...}: the aggregate metrics (duration, which nothing reads, left out)
Aggregate(v, acc) ==
    [total_frames |-> v.frame_count,
     analyzed_frames |-> acc.analyzed_frames,
     face_detected_frames |-> Len(acc.face_quality_scores),
     average_face_quality |-> IF acc.face_quality_scores # <<>>
                              THEN NpMean(acc.face_quality_scores) ELSE Zero,
     landmark_stability |-> IF acc.landmark_stability_scores # <<>>
                            THEN NpMean(acc.landmark_stability_scores) ELSE One,
     quality_variance |-> IF acc.face_quality_scores # <<>>
                          THEN NpVar(acc.face_quality_scores) ELSE Zero]

\* except Exception as e: return {'error': str(e)}
AnalyzeVideoExcept(e) == [error |-> e]

\* mutant: self._analyze_video(video_path) called directly in the coroutine
to_thread_Inline == "loop"

\* asyncio.to_thread(func, ...): func runs in a thread of the default executor
to_thread == "worker"

\* detect_deepfake, after the analysis: verdict, confidence, explanation
DetectReturn(analysis) == Returned(interpret_analysis(analysis))

\* mutant: the exception logged and re-raised
DetectExcept_Reraises(e) == Raised(e)

\* detect_deepfake: except Exception as e: return INCONCLUSIVE, 0.0, "Analysis failed"
DetectExcept(e) ==
    Returned([verdict |-> "INCONCLUSIVE", confidence |-> Zero,
              explanation |-> [text |-> "Analysis failed", error |-> e]])

(***************************************************************************)
(* Actions.                                                                *)
(***************************************************************************)
call == <<pc, video, cap, sample_interval, analyzed_frames, face_quality_scores,
          landmark_stability_scores, previous_landmarks, frame_idx, analysis_result,
          outcome, opens, reads, submitted>>

\* initialize: _initialize_mediapipe builds both models, then is_initialized = True
InitializeOk ==
    /\ pc = "idle"
    /\ ~is_initialized
    /\ face_mesh' = "model"
    /\ face_detection' = "model"
    /\ is_initialized' = TRUE
    /\ UNCHANGED call
    /\ UNCHANGED <<calls, runner, request>>

\* initialize: FaceDetection(...) raises after FaceMesh(...) was built; re-raised
InitializeFails ==
    /\ pc = "idle"
    /\ ~is_initialized
    /\ face_mesh = "none"
    /\ face_mesh' = "model"
    /\ UNCHANGED <<face_detection, is_initialized>>
    /\ UNCHANGED call
    /\ UNCHANGED <<calls, runner, request>>

\* mutant: the is_initialized check of lines 64-65 left out
DetectDeepfake_Unchecked ==
    /\ pc = "idle"
    /\ \E v \in Videos :
        /\ video' = v
        /\ outcome' = outcome
        /\ pc' = "offload"
    /\ UNCHANGED <<service, cap, accumulator, walk, analysis_result, opens>>
    /\ UNCHANGED <<calls, runner, request>>

\* detect_deepfake(video_path), up to the offload
DetectDeepfake ==
    /\ pc = "idle"
    /\ \E v \in Videos :
        /\ video' = v
        /\ IF ~is_initialized
           THEN /\ outcome' = Raised("RuntimeError: Deepfake detection service not initialized")
                /\ pc' = "done"
           ELSE /\ outcome' = outcome
                /\ pc' = "offload"
    /\ UNCHANGED <<service, cap, accumulator, walk, analysis_result, opens>>
    /\ UNCHANGED <<calls, runner, request>>

\* await asyncio.to_thread(self._analyze_video, video_path): the worker starts
Offload ==
    /\ pc = "offload"
    /\ pc' = "open"
    /\ UNCHANGED <<service, video, cap, accumulator, walk, analysis_result, outcome, opens>>
    /\ UNCHANGED calls
    /\ runner' = to_thread
    /\ UNCHANGED request

\* asyncio.to_thread raises (the executor refuses the job)
OffloadRaises ==
    /\ pc = "offload"
    /\ outcome' = DetectExcept("RuntimeError: cannot schedule new futures")
    /\ pc' = "done"
    /\ UNCHANGED <<service, video, cap, accumulator, walk, analysis_result, opens>>
    /\ UNCHANGED <<calls, runner, request>>

\* cap = cv2.VideoCapture(video_path) ... frame_idx = 0
OpenVideo ==
    /\ pc = "open"
    /\ opens' = opens + 1
    /\ cap' = IF video.opens THEN "open" ELSE "closed"
    /\ IF OpenFailed(video)
       THEN /\ analysis_result' = AnalyzeVideoExcept("Could not open video file")
            /\ pc' = "interpret"
            /\ UNCHANGED <<accumulator, walk>>
       ELSE /\ sample_interval' = SampleInterval(video.frame_count)
            /\ analyzed_frames' = 0
            /\ face_quality_scores' = <<>>
            /\ landmark_stability_scores' = <<>>
            /\ previous_landmarks' = None
            /\ frame_idx' = 0
            /\ pc' = "walk"
            /\ UNCHANGED <<analysis_result, reads, submitted>>
    /\ UNCHANGED <<service, video, outcome>>
    /\ UNCHANGED calls
    /\ runner' = IF OpenFailed(video) THEN "loop" ELSE runner
    /\ UNCHANGED request

\* the loop condition is false: the walk ends
WalkExit ==
    /\ pc = "walk"
    /\ ~LoopCond(cap, analyzed_frames)
    /\ pc' = "release"
    /\ UNCHANGED <<service, video, cap, accumulator, walk, analysis_result, outcome, opens>>
    /\ UNCHANGED <<calls, runner, request>>

\* ret, frame = cap.read(); if not ret: break  (source exhausted or frame undecodable)
WalkReadFails ==
    /\ pc = "walk"
    /\ LoopCond(cap, analyzed_frames)
    /\ \/ ~HasFrame(video, frame_idx)
       \/ /\ HasFrame(video, frame_idx)
          /\ ~FrameAt(video, frame_idx).ret
          /\ ~FrameAt(video, frame_idx).read_raises
    /\ reads' = reads + 1
    /\ pc' = "release"
    /\ UNCHANGED <<service, video, cap, accumulator, sample_interval, frame_idx,
                   submitted, analysis_result, outcome, opens>>
    /\ UNCHANGED <<calls, runner, request>>

\* cap.read() raises: caught by _analyze_video's except, before cap.release()
WalkReadRaises ==
    /\ pc = "walk"
    /\ LoopCond(cap, analyzed_frames)
    /\ HasFrame(video, frame_idx)
    /\ FrameAt(video, frame_idx).read_raises
    /\ reads' = reads + 1
    /\ analysis_result' = AnalyzeVideoExcept("cv2.error")
    /\ pc' = "interpret"
    /\ UNCHANGED <<service, video, cap, accumulator, sample_interval, frame_idx,
                   submitted, outcome, opens>>
    /\ UNCHANGED calls
    /\ runner' = "loop"
    /\ UNCHANGED request

\* mutant: an iteration on such a frame that advances nothing
WalkSkip_Stalls ==
    /\ pc = "walk"
    /\ LoopCond(cap, analyzed_frames)
    /\ HasFrame(video, frame_idx)
    /\ FrameAt(video, frame_idx).ret
    /\ ~IsSampled(frame_idx, sample_interval)
    /\ UNCHANGED vars

\* one iteration on a frame whose index is no multiple of sample_interval
WalkSkip ==
    /\ pc = "walk"
    /\ LoopCond(cap, analyzed_frames)
    /\ HasFrame(video, frame_idx)
    /\ FrameAt(video, frame_idx).ret
    /\ ~IsSampled(frame_idx, sample_interval)
    /\ reads' = reads + 1
    /\ frame_idx' = frame_idx + 1
    /\ UNCHANGED <<service, pc, video, cap, accumulator, sample_interval, submitted,
                   analysis_result, outcome, opens>>
    /\ UNCHANGED <<calls, runner, request>>

\* one iteration on a sampled frame
WalkSample ==
    /\ pc = "walk"
    /\ LoopCond(cap, analyzed_frames)
    /\ HasFrame(video, frame_idx)
    /\ FrameAt(video, frame_idx).ret
    /\ IsSampled(frame_idx, sample_interval)
    /\ reads' = reads + 1
    /\ submitted' = Append(submitted, frame_idx)
    /\ \E obs \in {analyze_frame(FrameAt(video, frame_idx))} :
         \E acc \in {Observe(Acc, obs)} :
           /\ analyzed_frames' = acc.analyzed_frames
           /\ face_quality_scores' = acc.face_quality_scores
           /\ landmark_stability_scores' = acc.landmark_stability_scores
           /\ previous_landmarks' = acc.previous_landmarks
    /\ frame_idx' = frame_idx + 1
    /\ UNCHANGED <<service, pc, video, cap, sample_interval, analysis_result, outcome,
                   opens>>
    /\ UNCHANGED <<calls, runner, request>>

\* cap.release(); result = {...}; return result
Release ==
    /\ pc = "release"
    /\ cap' = "released"
    /\ analysis_result' = Aggregate(video, Acc)
    /\ pc' = "interpret"
    /\ UNCHANGED <<service, video, accumulator, walk, outcome, opens>>
    /\ UNCHANGED calls
    /\ runner' = "loop"
    /\ UNCHANGED request

\* cap.release(); building result raises (MemoryError, ...): caught by the except
AggregateRaises ==
    /\ pc = "release"
    /\ cap' = "released"
    /\ analysis_result' = AnalyzeVideoExcept("MemoryError")
    /\ pc' = "interpret"
    /\ UNCHANGED <<service, video, accumulator, walk, outcome, opens>>
    /\ UNCHANGED calls
    /\ runner' = "loop"
    /\ UNCHANGED request

\* verdict, confidence, explanation = self._interpret_analysis(analysis_result); return
Interpret ==
    /\ pc = "interpret"
    /\ outcome' = DetectReturn(analysis_result)
    /\ pc' = "done"
    /\ UNCHANGED <<service, video, cap, accumulator, walk, analysis_result, opens>>
    /\ UNCHANGED <<calls, runner, request>>

Next ==
    \/ InitializeOk
    \/ InitializeFails
    \/ DetectDeepfake
    \/ Offload
    \/ OffloadRaises
    \/ OpenVideo
    \/ WalkExit
    \/ WalkReadFails
    \/ WalkReadRaises
    \/ WalkSkip
    \/ WalkSample
    \/ Release
    \/ AggregateRaises
    \/ Interpret

Spec == Init /\ [][Next]_vars

\* the event loop and the executor thread keep running: a call that can take
\* a step eventually takes one
FairSpec == Spec /\ WF_vars(Next)

(***************************************************************************)
(* _interpret_analysis alone: the dict handed to it is drawn from a grid   *)
(* of aggregate metrics around every threshold, and Interpret applies it.  *)
(***************************************************************************)
VarianceGrid  == {R(0, 1), R(1, 10), R(101, 1000), R(1, 4)}
StabilityGrid == {R(0, 1), R(2, 5), R(699, 1000), R(7, 10), R(1, 1)}
QualityGrid   == {R(0, 1), R(299, 1000), R(3, 10), R(3, 5), R(95, 100),
                  R(951, 1000), R(97, 100), R(1, 1)}

MetricsGrid ==
    { [total_frames |-> n, analyzed_frames |-> n, face_detected_frames |-> n,
       average_face_quality |-> q, landmark_stability |-> s, quality_variance |-> v] :
        n \in 0..MaxAnalyzedFrames, q \in QualityGrid, s \in StabilityGrid,
        v \in VarianceGrid }
    \cup {AnalyzeVideoExcept("Could not open video file")}

InterpInit ==
    /\ is_initialized = TRUE
    /\ face_mesh = "model"
    /\ face_detection = "model"
    /\ pc = "interpret"
    /\ video = NoVideo
    /\ cap = "released"
    /\ sample_interval = 1
    /\ analyzed_frames = 0
    /\ face_quality_scores = <<>>
    /\ landmark_stability_scores = <<>>
    /\ previous_landmarks = None
    /\ frame_idx = 0
    /\ analysis_result \in MetricsGrid
    /\ outcome = NoOutcome
    /\ opens = 1
    /\ reads = 0
    /\ submitted = <<>>
    /\ calls = [i \in Calls |-> IdleCall]
    /\ runner = "loop"
    /\ request = NoRequest

InterpNext == Interpret

SpecInterp == InterpInit /\ [][InterpNext]_vars

(***************************************************************************)
(* Overlapping calls.  verify_video awaits detect_deepfake of the one      *)
(* module-level deepfake_detection_service, and detect_deepfake hands      *)
(* _analyze_video to asyncio.to_thread: requests that overlap run their    *)
(* walks in different threads of the default executor, over the same       *)
(* self.face_detection and self.face_mesh.  A worker is at "walk" at an    *)
(* iteration boundary and at "process" inside _analyze_frame, between the  *)
(* entry of face_detection.process and the return of face_mesh.process.    *)
(* The accumulator of a walk is made of locals of _analyze_video, one set  *)
(* per worker.  cancelled records that the caller's await was cancelled    *)
(* (client gone, caller-side timeout); nothing in the walk reads it.       *)
(***************************************************************************)
single == <<pc, video, cap, accumulator, walk, analysis_result, outcome, opens,
            runner, request>>

\* mutant: previous_landmarks kept on the service, one for all calls
AccOf_SharedTracker(c) ==
    [analyzed_frames |-> c.analyzed_frames,
     face_quality_scores |-> c.face_quality_scores,
     landmark_stability_scores |-> c.landmark_stability_scores,
     previous_landmarks |-> calls[1].previous_landmarks]

AccOf(c) == [analyzed_frames |-> c.analyzed_frames,
             face_quality_scores |-> c.face_quality_scores,
             landmark_stability_scores |-> c.landmark_stability_scores,
             previous_landmarks |-> c.previous_landmarks]

ConcInit ==
    /\ is_initialized = TRUE
    /\ face_mesh = "model"
    /\ face_detection = "model"
    /\ Fresh
    /\ request = NoRequest

\* detect_deepfake of request i: the worker opens its video and sets its locals
ConcStart(i) ==
    /\ is_initialized
    /\ calls[i].pc = "idle"
    /\ \E v \in ConcVideos :
          calls' = [calls EXCEPT ![i] =
                       [@ EXCEPT !.pc = "walk", !.video = v, !.cap = "open",
                                 !.sample_interval = SampleInterval(v.frame_count),
                                 !.analyzed_frames = 0,
                                 !.face_quality_scores = <<>>,
                                 !.landmark_stability_scores = <<>>,
                                 !.previous_landmarks = None,
                                 !.frame_idx = 0]]
    /\ UNCHANGED <<service, single>>

\* while ...: ret, frame = cap.read(); a sampled frame goes to _analyze_frame
ConcRead(i) ==
    /\ calls[i].pc = "walk"
    /\ LoopCond(calls[i].cap, calls[i].analyzed_frames)
    /\ HasFrame(calls[i].video, calls[i].frame_idx)
    /\ FrameAt(calls[i].video, calls[i].frame_idx).ret
    /\ calls' = [calls EXCEPT ![i] =
                    IF IsSampled(@.frame_idx, @.sample_interval)
                    THEN [@ EXCEPT !.reads = @ + 1, !.pc = "process"]
                    ELSE [@ EXCEPT !.reads = @ + 1, !.frame_idx = @ + 1]]
    /\ UNCHANGED <<service, single>>

\* face_mesh.process returns; the rest of the iteration
ConcProcess(i) ==
    /\ calls[i].pc = "process"
    /\ LET c   == calls[i]
           acc == Observe(AccOf(c), analyze_frame(FrameAt(c.video, c.frame_idx)))
       IN  calls' = [calls EXCEPT ![i] =
                        [@ EXCEPT !.pc = "walk",
                                  !.analyzed_frames = acc.analyzed_frames,
                                  !.face_quality_scores = acc.face_quality_scores,
                                  !.landmark_stability_scores =
                                      acc.landmark_stability_scores,
                                  !.previous_landmarks = acc.previous_landmarks,
                                  !.frame_idx = @ + 1]]
    /\ UNCHANGED <<service, single>>

\* the loop ends (budget, or cap.read finds the source exhausted): cap.release()
\* and the metrics
ConcFinish(i) ==
    /\ calls[i].pc = "walk"
    /\ \/ ~LoopCond(calls[i].cap, calls[i].analyzed_frames)
       \/ ~HasFrame(calls[i].video, calls[i].frame_idx)
    /\ LET c == calls[i]
       IN  calls' = [calls EXCEPT ![i] =
                        [@ EXCEPT !.pc = "done", !.cap = "released",
                                  !.reads = IF LoopCond(c.cap, c.analyzed_frames)
                                            THEN @ + 1 ELSE @,
                                  !.analysis_result =
                                      Aggregate(c.video, AccOf(c))]]
    /\ UNCHANGED <<service, single>>

\* the await of asyncio.to_thread in detect_deepfake is cancelled while the
\* worker runs; the thread is not told
ConcCancel(i) ==
    /\ calls[i].pc \in {"walk", "process"}
    /\ ~calls[i].cancelled
    /\ calls' = [calls EXCEPT ![i].cancelled = TRUE]
    /\ UNCHANGED <<service, single>>

ConcNext ==
    \/ \E i \in Calls : ConcStart(i)
    \/ \E i \in Calls : ConcRead(i)
    \/ \E i \in Calls : ConcProcess(i)
    \/ \E i \in Calls : ConcFinish(i)
    \/ \E i \in Calls : ConcCancel(i)

SpecConc == ConcInit /\ [][ConcNext]_vars

(***************************************************************************)
(* verify_video: the endpoint in front of detect_deepfake.  Strings the    *)
(* endpoint takes apart (the file name, ALLOWED_VIDEO_FORMATS) are         *)
(* sequences of one-character strings.                                     *)
(***************************************************************************)
UpperCase == <<"A", "B", "C", "D", "E", "F", "G", "H", "I", "J", "K", "L", "M",
               "N", "O", "P", "Q", "R", "S", "T", "U", "V", "W", "X", "Y", "Z">>
LowerCase == <<"a", "b", "c", "d", "e", "f", "g", "h", "i", "j", "k", "l", "m",
               "n", "o", "p", "q", "r", "s", "t", "u", "v", "w", "x", "y", "z">>

\* str.lower
lower(s) ==
    [i \in 1..Len(s) |->
        IF \E k \in 1..Len(UpperCase) : UpperCase[k] = s[i]
        THEN LowerCase[CHOOSE k \in 1..Len(UpperCase) : UpperCase[k] = s[i]]
        ELSE s[i]]

\* str.rfind of one character, counted from 1; 0 when absent
RFind(s, ch) ==
    LET at == {i \in 1..Len(s) : s[i] = ch}
    IN  IF at = {} THEN 0 ELSE CHOOSE i \in at : \A j \in at : j <= i

\* str.find of one character, counted from 1; 0 when absent
Find(s, ch) ==
    LET at == {i \in 1..Len(s) : s[i] = ch}
    IN  IF at = {} THEN 0 ELSE CHOOSE i \in at : \A j \in at : i <= j

\* os.path.splitext(p)[1]: from the last dot of the last path component, unless
\* only dots precede it there
splitext_ext(p) ==
    LET sepIndex == RFind(p, "/")
        dotIndex == RFind(p, ".")
    IN  IF /\ dotIndex > sepIndex
           /\ \E k \in (sepIndex + 1)..(dotIndex - 1) : p[k] # "."
        THEN SubSeq(p, dotIndex, Len(p))
        ELSE <<>>

\* str.split(",")
RECURSIVE split(_)
split(s) ==
    LET i == Find(s, ",")
    IN  IF i = 0 THEN <<s>>
        ELSE <<SubSeq(s, 1, i - 1)>> \o split(SubSeq(s, i + 1, Len(s)))

\* str.strip
strip(s) ==
    LET at == {i \in 1..Len(s) : s[i] # " "}
    IN  IF at = {} THEN <<>>
        ELSE SubSeq(s, CHOOSE i \in at : \A j \in at : i <= j,
                       CHOOSE i \in at : \A j \in at : j <= i)

\* MAX_FILE_SIZE: int = 50 * 1024 * 1024
MAX_FILE_SIZE == 50 * 1024 * 1024

\* ALLOWED_VIDEO_FORMATS: str = ".mp4,.avi,.mov,.mkv"
ALLOWED_VIDEO_FORMATS ==
    <<".", "m", "p", "4", ",", ".", "a", "v", "i", ",", ".", "m", "o", "v", ",",
      ".", "m", "k", "v">>

\* [fmt.strip() for fmt in self.ALLOWED_VIDEO_FORMATS.split(",") if fmt.strip()]
ALLOWED_VIDEO_FORMATS_LIST ==
    LET parts == split(ALLOWED_VIDEO_FORMATS)
    IN  SelectSeq([i \in 1..Len(parts) |-> strip(parts[i])], LAMBDA fmt : fmt # <<>>)

\* file_ext = os.path.splitext(file.filename)[1].lower()
file_ext(filename) == lower(splitext_ext(filename))

\* if not file.filename   (None and "" alike)
NoFilename(filename) == filename = <<>>

\* if file_ext not in settings.ALLOWED_VIDEO_FORMATS_LIST
Unsupported(filename) ==
    \A i \in 1..Len(ALLOWED_VIDEO_FORMATS_LIST) :
        ALLOWED_VIDEO_FORMATS_LIST[i] # file_ext(filename)

\* mutant: the size check dropped
TooLarge_Never(size) == FALSE

\* if len(contents) > settings.MAX_FILE_SIZE
TooLarge(size) == size > MAX_FILE_SIZE

\* the uploads: no name, an upper-case allowed extension, an extension off the
\* list, no extension, a name that is nothing but an allowed extension
Filenames ==
    { <<>>,
      <<"v", ".", "M", "P", "4">>,
      <<"v", ".", "e", "x", "e">>,
      <<"v">>,
      <<".", "m", "p", "4">> }

Sizes == {0, MAX_FILE_SIZE, MAX_FILE_SIZE + 1}

Requests ==
    { [pc |-> "new", filename |-> f, size |-> n, temp_file |-> "none",
       status |-> 0, body |-> None] : f \in Filenames, n \in Sizes }

\* raise HTTPException(status_code=..., detail=...): the request is answered
HTTPException(req, status_code, detail) ==
    [req EXCEPT !.pc = "done", !.status = status_code, !.body = [detail |-> detail]]

\* VerificationResult(...) of lines 217-231, returned with status 200
VerificationResult(req, out) ==
    [req EXCEPT !.pc = "done", !.status = 200,
                !.body = [input_method |-> "video", verdict |-> out.verdict,
                          confidence |-> out.confidence,
                          explanation |-> out.explanation,
                          additional_data |->
                              [filename |-> req.filename, file_size |-> req.size,
                               file_format |-> file_ext(req.filename)]]]

\* finally: if os.path.exists(temp_file_path): os.unlink(temp_file_path)
Unlink(req) == [req EXCEPT !.temp_file = "deleted"]

EpInit ==
    /\ is_initialized = FALSE
    /\ face_mesh = "none"
    /\ face_detection = "none"
    /\ Fresh
    /\ request \in Requests

\* lines 189-202: the three checks, each answered with 400
EpValidate ==
    /\ request.pc = "new"
    /\ request' =
          IF NoFilename(request.filename)
          THEN HTTPException(request, 400, "No file provided")
          ELSE IF Unsupported(request.filename)
          THEN HTTPException(request, 400, "Unsupported file format")
          ELSE IF TooLarge(request.size)
          THEN HTTPException(request, 400, "File too large")
          ELSE [request EXCEPT !.pc = "save"]
    /\ UNCHANGED <<service, call, calls, runner>>

\* with tempfile.NamedTemporaryFile(suffix=file_ext, delete=False): write
EpSave ==
    /\ request.pc = "save"
    /\ request' = [request EXCEPT !.pc = "analyze", !.temp_file = "exists"]
    /\ UNCHANGED <<service, call, calls, runner>>

\* the file is created and temp_file.write raises (no space left): the with
\* block closes the file, the outer except answers 500
EpSaveRaises ==
    /\ request.pc = "save"
    /\ request' = HTTPException([request EXCEPT !.temp_file = "exists"], 500,
                                "Video verification failed")
    /\ UNCHANGED <<service, call, calls, runner>>

\* await deepfake_detection_service.detect_deepfake(temp_file_path)
EpDetectDeepfake ==
    /\ request.pc = "analyze"
    /\ DetectDeepfake

\* the call is over: the result record, the finally, the except clauses
EpRespond ==
    /\ request.pc = "analyze"
    /\ pc = "done"
    /\ request' =
          IF outcome.kind = "raised"
          THEN HTTPException(Unlink(request), 500, "Video verification failed")
          ELSE VerificationResult(Unlink(request), outcome)
    /\ UNCHANGED <<service, call, calls, runner>>

\* VerificationResult(...) raises: the finally, then except Exception: 500
EpRespondRaises ==
    /\ request.pc = "analyze"
    /\ pc = "done"
    /\ outcome.kind = "returned"
    /\ request' = HTTPException(Unlink(request), 500, "Video verification failed")
    /\ UNCHANGED <<service, call, calls, runner>>

EpNext ==
    \/ InitializeOk
    \/ InitializeFails
    \/ EpValidate
    \/ EpSave
    \/ EpSaveRaises
    \/ EpDetectDeepfake
    \/ Offload
    \/ OffloadRaises
    \/ OpenVideo
    \/ WalkExit
    \/ WalkReadFails
    \/ WalkReadRaises
    \/ WalkSkip
    \/ WalkSample
    \/ Release
    \/ AggregateRaises
    \/ Interpret
    \/ EpRespond
    \/ EpRespondRaises

SpecEndpoint == EpInit /\ [][EpNext]_vars

(***************************************************************************)
(* Properties of the Verdict Synthesizer (specification SpecInterp).       *)
(***************************************************************************)
Interpreted == pc = "done" /\ "error" \notin DOMAIN analysis_result

\* C1: insufficient-evidence gate.  Every metrics record without an error and
\* with analyzed_frames < 5 is answered INCONCLUSIVE with confidence exactly 0.0
\* and the insufficient-frames explanation, whatever quality_variance,
\* landmark_stability and average_face_quality are.
C1_InsufficientEvidenceGate ==
    (Interpreted /\ analysis_result.analyzed_frames < 5)
        => /\ outcome.kind = "returned"
           /\ outcome.verdict = "INCONCLUSIVE"
           /\ outcome.confidence = <<0, 1>>
           /\ outcome.explanation =
                  [text |-> "Insufficient frames analyzed for reliable detection"]

\* Scenario C with all three indicators past their thresholds
C1_Witness ==
    /\ Interpreted
    /\ analysis_result.analyzed_frames = 3
    /\ analysis_result.quality_variance = R(1, 4)
    /\ analysis_result.landmark_stability = R(2, 5)
    /\ analysis_result.average_face_quality = R(97, 100)
    /\ outcome.verdict = "INCONCLUSIVE"
    /\ outcome.confidence = <<0, 1>>

\* C2: multi-factor fusion.  With analyzed_frames >= 5 and no error, let fired
\* count the true predicates among quality_variance > 0.1, landmark_stability <
\* 0.7 and (average_face_quality > 0.95 or < 0.3).  The verdict is FAKE iff
\* fired >= 2, REAL iff fired = 0, and INCONCLUSIVE with confidence 0.5 iff
\* fired = 1.
C2_MultiFactorFusion ==
    (Interpreted /\ analysis_result.analyzed_frames >= 5)
        => LET a == RGt(analysis_result.quality_variance, R(1, 10))
               b == RLt(analysis_result.landmark_stability, R(7, 10))
               c == \/ RGt(analysis_result.average_face_quality, R(95, 100))
                    \/ RLt(analysis_result.average_face_quality, R(3, 10))
               fired == B2N(a) + B2N(b) + B2N(c)
           IN  /\ outcome.kind = "returned"
               /\ (outcome.verdict = "FAKE") <=> (fired >= 2)
               /\ (outcome.verdict = "REAL") <=> (fired = 0)
               /\ (outcome.verdict = "INCONCLUSIVE" /\ outcome.confidence = R(1, 2))
                      <=> (fired = 1)

\* two indicators, the quality one by its low side: FAKE
C2_Witness ==
    /\ Interpreted
    /\ analysis_result.analyzed_frames = 5
    /\ analysis_result.quality_variance = R(1, 10)
    /\ analysis_result.landmark_stability = R(699, 1000)
    /\ analysis_result.average_face_quality = R(299, 1000)
    /\ outcome.verdict = "FAKE"

\* C4: confidence formula.  FAKE carries min(0.9, 0.5 + ratio * 0.4) and REAL
\* carries min(0.9, 0.5 + (1 - ratio) * 0.4), ratio = fired / 3; no indicator
\* gives REAL at 0.9, three give FAKE at 0.9, and no confidence exceeds 0.9.
C4_ConfidenceFormula ==
    pc = "done"
        => /\ RLe(outcome.confidence, R(9, 10))
           /\ (Interpreted /\ analysis_result.analyzed_frames >= 5)
                => LET a == RGt(analysis_result.quality_variance, R(1, 10))
                       b == RLt(analysis_result.landmark_stability, R(7, 10))
                       c == \/ RGt(analysis_result.average_face_quality, R(95, 100))
                            \/ RLt(analysis_result.average_face_quality, R(3, 10))
                       ratio == R(B2N(a) + B2N(b) + B2N(c), 3)
                   IN  /\ outcome.verdict = "FAKE"
                            => outcome.confidence =
                                   RMin(R(9, 10), RAdd(R(1, 2), RMul(ratio, R(4, 10))))
                       /\ outcome.verdict = "REAL"
                            => outcome.confidence =
                                   RMin(R(9, 10),
                                        RAdd(R(1, 2), RMul(RSub(R(1, 1), ratio), R(4, 10))))
                       /\ ratio = R(0, 1)
                            => outcome.verdict = "REAL" /\ outcome.confidence = R(9, 10)
                       /\ ratio = R(1, 1)
                            => outcome.verdict = "FAKE" /\ outcome.confidence = R(9, 10)

\* two indicators: FAKE at 0.5 + (2/3) * 0.4 = 23/30
C4_Witness ==
    /\ Interpreted
    /\ analysis_result.analyzed_frames = 50
    /\ analysis_result.quality_variance = R(1, 4)
    /\ analysis_result.landmark_stability = R(2, 5)
    /\ analysis_result.average_face_quality = R(3, 5)
    /\ outcome.verdict = "FAKE"
    /\ outcome.confidence = R(23, 30)

(***************************************************************************)
(* Properties of the pipeline (specification Spec).                        *)
(***************************************************************************)
\* C3: for every input (any frames, any extractor output, open failure
\* included) the returned confidence lies in [0,1] and the verdict is one of
\* REAL, FAKE, INCONCLUSIVE.
C3_ConfidenceAndVerdictRange ==
    outcome.kind = "returned"
        => /\ outcome.verdict \in {"REAL", "FAKE", "INCONCLUSIVE"}
           /\ RLe(<<0, 1>>, outcome.confidence)
           /\ RLe(outcome.confidence, <<1, 1>>)

\* a walked video judged FAKE on two indicators
C3_Witness ==
    /\ pc = "done"
    /\ analyzed_frames = 50
    /\ outcome.kind = "returned"
    /\ outcome.verdict = "FAKE"
    /\ outcome.confidence = R(23, 30)

\* C5: no failure below the session level (open failure, undecodable frame,
\* extraction raising, aggregation raising, the read or the offload raising)
\* leaves detect_deepfake as an exception: every accepted call that ends has
\* returned a (verdict, confidence, explanation) triple.
C5_AlwaysVerdictTriple ==
    (pc = "done" /\ is_initialized)
        => /\ outcome.kind = "returned"
           /\ DOMAIN outcome = {"kind", "verdict", "confidence", "explanation"}
           /\ outcome.verdict \in {"REAL", "FAKE", "INCONCLUSIVE"}

\* the offload itself failed and the call still returned a triple
C5_Witness ==
    /\ pc = "done"
    /\ is_initialized
    /\ opens = 0
    /\ outcome.kind = "returned"
    /\ outcome.verdict = "INCONCLUSIVE"
    /\ outcome.explanation.text = "Analysis failed"

\* C6: when the Frame Source cannot be opened there is no frame walk, the open
\* is attempted exactly once, and the call returns INCONCLUSIVE with confidence
\* 0.0 and an explanation carrying the error description.
C6_SessionOpenFailure ==
    (opens > 0 /\ ~video.opens)
        => /\ opens = 1
           /\ reads = 0
           /\ submitted = <<>>
           /\ frame_idx = 0
           /\ pc \in {"interpret", "done"}
           /\ pc = "done"
                => /\ outcome.kind = "returned"
                   /\ outcome.verdict = "INCONCLUSIVE"
                   /\ outcome.confidence = <<0, 1>>
                   /\ outcome.explanation =
                          [text |-> "Analysis error", error |-> "Could not open video file"]

C6_Witness ==
    /\ pc = "done"
    /\ ~video.opens
    /\ opens = 1
    /\ cap = "closed"
    /\ outcome.kind = "returned"
    /\ outcome.explanation.error = "Could not open video file"

\* C7: analyzed_frames never exceeds 50; the walk ends as soon as the source
\* is exhausted or the count reaches 50, and once the count is 50 no frame is
\* read or submitted any more.
C7_FrameBudget ==
    /\ [](analyzed_frames <= 50)
    /\ [][(pc = "walk" /\ (analyzed_frames >= 50 \/ frame_idx >= video.nframes))
            => /\ pc' = "release"
               /\ frame_idx' = frame_idx
               /\ submitted' = submitted
               /\ accumulator' = accumulator
               /\ analyzed_frames >= 50 => reads' = reads]_vars
    /\ [][analyzed_frames >= 50 => (reads' = reads /\ submitted' = submitted)]_vars

\* the budget is reached while the source still has frames
C7_Witness ==
    /\ pc = "release"
    /\ analyzed_frames = 50
    /\ reads = 50
    /\ frame_idx < video.nframes

C9_FacelessFrameEffect ==
    [][(/\ pc = "walk"
        /\ reads' = reads + 1
        /\ frame_idx < video.nframes
        /\ FrameAt(video, frame_idx).ret
        /\ \/ frame_idx % sample_interval # 0
           \/ FrameAt(video, frame_idx).detections = <<>>
           \/ FrameAt(video, frame_idx).extract_raises)
          => /\ analyzed_frames' = analyzed_frames
             /\ face_quality_scores' = face_quality_scores
             /\ landmark_stability_scores' = landmark_stability_scores
             /\ previous_landmarks' = previous_landmarks
             /\ frame_idx' = frame_idx + 1
             /\ UNCHANGED <<pc, cap, analysis_result, outcome, sample_interval>>]_vars

\* a sampled frame with landmarks but no detected face has just been walked
\* over a non-empty accumulator
C9_Witness ==
    /\ pc = "walk"
    /\ frame_idx >= 2
    /\ submitted # <<>>
    /\ submitted[Len(submitted)] = frame_idx - 1
    /\ FrameAt(video, frame_idx - 1).detections = <<>>
    /\ FrameAt(video, frame_idx - 1).multi_face_landmarks # <<>>
    /\ analyzed_frames >= 1
    /\ previous_landmarks = Landmarks(FullMesh, 0)

\* C10: the work of one analysis has a fixed ceiling independent of the video:
\* at most 50 frames are submitted to the extractor, and the reads stay within
\* the same ceiling (plus the read that finds the source exhausted).
C10_FixedWorkCeiling ==
    /\ Len(submitted) <= 50
    /\ reads <= 50 + 1

\* the sampled frames so far on which the extractor reported a face: the
\* detector found one and the extraction did not raise
FaceBearing(f) == f.detections # <<>> /\ ~f.extract_raises

FaceBearingSubmitted ==
    SelectSeq(submitted, LAMBDA i : FaceBearing(FrameAt(video, i)))

\* C11: aggregator invariant.  At every iteration boundary analyzed_frames is
\* the number of sampled frames processed so far with has_face = true and the
\* length of the face-quality list, whose values are the detector scores of
\* those frames in order; the finalized record has analyzed_frames =
\* face_detected_frames.
C11_AggregatorInvariant ==
    cap \in {"open", "released"}
        => /\ analyzed_frames = Len(FaceBearingSubmitted)
           /\ analyzed_frames = Len(face_quality_scores)
           /\ \A k \in 1..Len(face_quality_scores) :
                  LET d == FrameAt(video, FaceBearingSubmitted[k]).detections[1]
                  IN  face_quality_scores[k] =
                          IF d.score # <<>> THEN d.score[1] ELSE R(1, 2)
           /\ (pc \in {"interpret", "done"} /\ "error" \notin DOMAIN analysis_result)
                => /\ analysis_result.analyzed_frames = analyzed_frames
                   /\ analysis_result.face_detected_frames
                          = analysis_result.analyzed_frames

\* a finalized session in which face-bearing and faceless sampled frames alternate
C11_Witness ==
    /\ pc = "interpret"
    /\ "error" \notin DOMAIN analysis_result
    /\ Len(submitted) = MaxVideoLen
    /\ analysis_result.analyzed_frames >= 2
    /\ analysis_result.analyzed_frames < Len(submitted)
    /\ analysis_result.face_detected_frames = analysis_result.analyzed_frames
    /\ face_quality_scores[1] = R(3, 5)

\* a step of the walk that samples a decoded frame on which the extractor
\* reports a face
FaceBearingStep ==
    /\ pc = "walk"
    /\ reads' = reads + 1
    /\ frame_idx < video.nframes
    /\ FrameAt(video, frame_idx).ret
    /\ frame_idx % sample_interval = 0
    /\ FaceBearing(FrameAt(video, frame_idx))

\* what results.multi_face_landmarks[0] of a frame is, None when there is none
MeshOf(f) ==
    IF f.multi_face_landmarks # <<>> THEN f.multi_face_landmarks[1] ELSE None

\* C12: stability tracker state.  After each face-bearing observation the
\* retained landmark set is that observation's landmark set; the observation
\* emits one StabilityScore if a previous landmark set is retained and none
\* otherwise, and the first face-bearing frame of a session emits none.
C12_TrackerState ==
    [][FaceBearingStep
          => /\ previous_landmarks' = MeshOf(FrameAt(video, frame_idx))
             /\ previous_landmarks # None
                  => /\ Len(landmark_stability_scores')
                            = Len(landmark_stability_scores) + 1
                     /\ SubSeq(landmark_stability_scores', 1,
                               Len(landmark_stability_scores))
                            = landmark_stability_scores
             /\ previous_landmarks = None
                  => landmark_stability_scores' = landmark_stability_scores
             /\ analyzed_frames = 0
                  => landmark_stability_scores' = <<>>]_vars

\* a face-bearing frame without landmarks has just replaced a retained
\* landmark set, after a score was emitted for it
C12_Witness ==
    /\ pc = "walk"
    /\ submitted # <<>>
    /\ submitted[Len(submitted)] = frame_idx - 1
    /\ FaceBearing(FrameAt(video, frame_idx - 1))
    /\ FrameAt(video, frame_idx - 1).multi_face_landmarks = <<>>
    /\ previous_landmarks = None
    /\ analyzed_frames >= 2
    /\ Len(landmark_stability_scores) >= 1
    /\ landmark_stability_scores[Len(landmark_stability_scores)] = One

\* _analyze_video has returned its metrics (no 'error' key)
Finalized == pc = "interpret" /\ "error" \notin DOMAIN analysis_result

\* C13: one StabilityScore per consecutive pair of face-bearing frames: at
\* finalize the number of recorded scores is max(0, analyzed_frames - 1), also
\* when face-bearing frames carry no landmark set.
C13_OneScorePerPair ==
    Finalized => Len(landmark_stability_scores) = Max(0, analyzed_frames - 1)

\* C14: missing-landmark default.  For a pair of adjacent face-bearing frames
\* in which the previous or the current frame has no landmark set, the score
\* recorded for the pair is exactly 1.0, whichever of the two lacks it.
C14_MissingLandmarkDefault ==
    [][(/\ FaceBearingStep
        /\ analyzed_frames >= 1
        /\ \/ previous_landmarks = None
           \/ MeshOf(FrameAt(video, frame_idx)) = None)
          => landmark_stability_scores'
                 = Append(landmark_stability_scores, One)]_vars

\* C15: finalize defaults.  With no face-bearing frame the average quality and
\* the quality variance are 0; with zero or one face-bearing frame the
\* stability is 1.0; otherwise average and variance are the mean and the
\* population variance of the collected qualities and the stability is the
\* mean of the recorded StabilityScore values.
C15_FinalizeDefaults ==
    Finalized
        => /\ analyzed_frames = 0
                => /\ analysis_result.average_face_quality = Zero
                   /\ analysis_result.quality_variance = Zero
           /\ analyzed_frames <= 1
                => analysis_result.landmark_stability = One
           /\ analyzed_frames >= 1
                => /\ analysis_result.average_face_quality
                          = NpMean(face_quality_scores)
                   /\ analysis_result.quality_variance
                          = NpVar(face_quality_scores)
           /\ analyzed_frames >= 2
                => /\ landmark_stability_scores # <<>>
                   /\ analysis_result.landmark_stability
                          = NpMean(landmark_stability_scores)

\* C16: a frame that fails to decode is skipped and the walk continues with
\* the frame after it.
C16_DecodeFailureSkipsFrame ==
    [][(/\ pc = "walk"
        /\ reads' = reads + 1
        /\ frame_idx < video.nframes
        /\ ~FrameAt(video, frame_idx).ret
        /\ ~FrameAt(video, frame_idx).read_raises)
          => /\ pc' = "walk"
             /\ frame_idx' = frame_idx + 1
             /\ UNCHANGED <<cap, accumulator>>]_vars

\* C17: a failure inside the per-frame extraction degrades that frame to "no
\* face" (has_face false, face_quality 0.0, no landmarks): the accumulator is
\* unchanged for the frame, the walk goes on with the next frame and the
\* session is not aborted.
C17_ExtractionFailureDegrades ==
    [][(/\ pc = "walk"
        /\ reads' = reads + 1
        /\ frame_idx < video.nframes
        /\ FrameAt(video, frame_idx).ret
        /\ frame_idx % sample_interval = 0
        /\ FrameAt(video, frame_idx).extract_raises)
          => /\ ~analyze_frame(FrameAt(video, frame_idx)).has_face
             /\ analyze_frame(FrameAt(video, frame_idx)).face_quality = Zero
             /\ analyze_frame(FrameAt(video, frame_idx)).landmarks = None
             /\ submitted' = Append(submitted, frame_idx)
             /\ UNCHANGED accumulator
             /\ frame_idx' = frame_idx + 1
             /\ pc' = "walk"
             /\ UNCHANGED <<cap, analysis_result, outcome>>]_vars

\* a session finalized without error in which the extraction raised on a
\* sampled frame after a face was detected, and a later frame was counted
C17_Witness ==
    /\ Finalized
    /\ \E k \in 1..Len(submitted) :
          /\ FrameAt(video, submitted[k]).extract_raises
          /\ FrameAt(video, submitted[k]).detections # <<>>
          /\ \E m \in (k + 1)..Len(submitted) :
                FaceBearing(FrameAt(video, submitted[m]))
    /\ analyzed_frames >= 2
    /\ analyzed_frames = Len(FaceBearingSubmitted)

\* C18: the capture handle is released on every exit of the analysis after
\* the source was opened, on the normal path and on the exception path.
C18_CaptureReleased ==
    (pc \in {"interpret", "done"} /\ cap \notin {"none", "closed"})
        => cap = "released"

\* C19: concurrent analyses share no mutable state: the accumulator of each
\* call is its own, and the extractor is per call or its use is serialized,
\* so that no two analyses are inside the detector / landmark model's
\* process step at the same time.
C19_ExtractorSerialized ==
    \A i, j \in Calls :
        (calls[i].pc = "process" /\ calls[j].pc = "process") => i = j

\* C20: the walk checks a cancellation signal at each iteration boundary: a
\* worker whose caller has cancelled takes no further frame at the boundary,
\* neither reading nor submitting one to the extractor.
C20_CancellationStopsWalk ==
    [][\A i \in Calls :
          (calls[i].cancelled /\ calls[i].pc = "walk")
              => /\ calls'[i].pc # "process"
                 /\ calls'[i].frame_idx = calls[i].frame_idx]_vars

\* C21: offloading.  The frame walk and the per-frame extraction run only on
\* a worker thread, never on the event loop thread, which stays free for
\* other requests meanwhile; the call leaves the loop once, at its single
\* await, and comes back to it once, with the metrics.
C21_Offloading ==
    [][/\ (\/ opens' # opens
           \/ reads' # reads
           \/ submitted' # submitted
           \/ cap' # cap
           \/ accumulator' # accumulator)
          => runner = "worker"
       /\ pc \in {"open", "walk", "release"} => runner = "worker"
       /\ (runner = "loop" /\ runner' = "worker")
          => (pc = "offload" /\ pc' = "open")
       /\ (runner = "worker" /\ runner' = "loop")
          => pc' = "interpret"
       /\ pc \in {"idle", "offload", "interpret", "done"} => runner = "loop"]_vars

\* a frame with a face has been extracted and accumulated on the worker
C21_Witness ==
    /\ pc = "walk"
    /\ runner = "worker"
    /\ reads >= 2
    /\ analyzed_frames >= 1
    /\ Len(submitted) >= 2

\* C22: monotonicity in stability.  With quality_variance,
\* average_face_quality and analyzed_frames fixed, a smaller landmark_stability
\* never moves the verdict away from FAKE: no fewer indicators fire, FAKE stays
\* FAKE, and neither FAKE nor INCONCLUSIVE at 0.5 becomes REAL.
C22_StabilityMonotone ==
    Interpreted
        => \A s \in StabilityGrid :
              RLt(s, analysis_result.landmark_stability)
                  => LET lower_analysis ==
                             [analysis_result EXCEPT !.landmark_stability = s]
                         lower_result == interpret_analysis(lower_analysis)
                     IN  /\ suspicious_indicators(lower_analysis)
                                >= suspicious_indicators(analysis_result)
                         /\ outcome.verdict = "FAKE"
                                => lower_result.verdict = "FAKE"
                         /\ (\/ outcome.verdict = "FAKE"
                             \/ /\ outcome.verdict = "INCONCLUSIVE"
                                /\ outcome.confidence = R(1, 2))
                                => lower_result.verdict # "REAL"
                         /\ (outcome.verdict = "REAL" /\ lower_result.verdict = "REAL")
                                => lower_result.confidence = outcome.confidence

\* one indicator fired at stability 0.7; at 0.699 the verdict becomes FAKE
C22_Witness ==
    /\ Interpreted
    /\ analysis_result.analyzed_frames = 5
    /\ analysis_result.quality_variance = R(1, 4)
    /\ analysis_result.average_face_quality = R(3, 5)
    /\ analysis_result.landmark_stability = R(7, 10)
    /\ outcome.verdict = "INCONCLUSIVE"
    /\ outcome.confidence = R(1, 2)
    /\ interpret_analysis([analysis_result EXCEPT
                              !.landmark_stability = R(699, 1000)]).verdict = "FAKE"

PassesValidation(req) ==
    /\ req.filename # <<>>
    /\ lower(splitext_ext(req.filename))
           \in { <<".", "m", "p", "4">>, <<".", "a", "v", "i">>,
                 <<".", "m", "o", "v">>, <<".", "m", "k", "v">> }
    /\ req.size <= 52428800

\* C24: validation precedes the core.  detect_deepfake is invoked, and the
\* temporary file created, only for an upload that has a file name, an allowed
\* lower-cased extension and at most MAX_FILE_SIZE bytes; any other request is
\* answered 400 with no temporary file and no analysis.
C24_ValidationPrecedesCore ==
    /\ (request.temp_file # "none" \/ pc # "idle" \/ opens > 0 \/ reads > 0)
          => PassesValidation(request)
    /\ (request.pc # "new" /\ ~PassesValidation(request))
          => /\ request.pc = "done"
             /\ request.status = 400
             /\ request.temp_file = "none"
             /\ pc = "idle"
             /\ outcome = NoOutcome

\* an upload named v.MP4 of exactly MAX_FILE_SIZE bytes was analysed and
\* answered with a verdict
C24_Witness ==
    /\ request.pc = "done"
    /\ request.status = 200
    /\ request.filename = <<"v", ".", "M", "P", "4">>
    /\ request.size = MAX_FILE_SIZE
    /\ request.body.verdict = "FAKE"
    /\ opens = 1
    /\ reads > 0

\* landmark lists to compare: the full mesh at four positions, and a short
\* list that holds only the first six key indices
LandmarkLists ==
    {Landmarks(FullMesh, k) : k \in 0..3} \cup {Landmarks(100, 0), Landmarks(100, 3)}

\* avg_movement = np.mean(movements), for lists that share a key index
AvgMovement(prev, curr) == NpMean(Movements(prev, curr))

\* the score as a function of the average movement, over LandmarkLists: in
\* [0,1], 1/(1 + 100 * avg), 1.0 at no movement, smaller at larger movement
StabilityLaw ==
    \A p1, c1 \in LandmarkLists :
        LET s1 == calculate_landmark_stability(p1, c1)
            m1 == AvgMovement(p1, c1)
        IN  /\ RLe(Zero, s1) /\ RLe(s1, One)
            /\ s1 = RDiv(One, RAdd(One, RMul(m1, R(100, 1))))
            /\ m1 = Zero => s1 = One
            /\ \A p2, c2 \in LandmarkLists :
                  RLt(m1, AvgMovement(p2, c2))
                      => RGt(s1, calculate_landmark_stability(p2, c2))

\* C25: every StabilityScore recorded during a session lies in [0,1]; the
\* score is 1 / (1 + avg_movement * 100) over the key indices present in both
\* sets, 1.0 at zero average movement and strictly decreasing in it; the
\* finalized landmark_stability lies in [0,1] too.
C25_StabilityScoreRange ==
    /\ StabilityLaw
    /\ \A k \in 1..Len(landmark_stability_scores) :
          /\ RLe(Zero, landmark_stability_scores[k])
          /\ RLe(landmark_stability_scores[k], One)
    /\ Finalized
          => /\ RLe(Zero, analysis_result.landmark_stability)
             /\ RLe(analysis_result.landmark_stability, One)

\* a finalized session whose landmarks moved between the frames: scores below
\* 1.0 were recorded and their mean is strictly inside (0,1)
C25_Witness ==
    /\ Finalized
    /\ Len(landmark_stability_scores) >= 2
    /\ landmark_stability_scores[1] = R(1, 2)
    /\ RLt(Zero, analysis_result.landmark_stability)
    /\ RLt(analysis_result.landmark_stability, One)

\* a step of the walk that samples a decoded frame
SampledStep ==
    /\ pc = "walk"
    /\ reads' = reads + 1
    /\ frame_idx < video.nframes
    /\ FrameAt(video, frame_idx).ret
    /\ frame_idx % sample_interval = 0

\* C26 as stated: has_face is true if and only if the detector reported at
\* least one detection, landmarks are attached if and only if the landmark
\* model located a face, and landmarks of a frame without a detected face
\* never reach the tracker.
C26_ExtractorAdaptor ==
    [][SampledStep
          => LET f   == FrameAt(video, frame_idx)
                 obs == analyze_frame(f)
             IN  /\ obs.has_face <=> f.detections # <<>>
                 /\ obs.landmarks # None <=> f.multi_face_landmarks # <<>>
                 /\ f.detections = <<>>
                      => UNCHANGED <<previous_landmarks, landmark_stability_scores>>]_vars

\* C26, amended: the two equivalences hold for an extraction that completes;
\* an extraction that raises yields the no-face observation without
\* landmarks whatever the detector had reported.  In both cases the landmarks
\* of a frame without has_face never reach the tracker.
C26_ExtractorAdaptor_Amended ==
    [][SampledStep
          => LET f   == FrameAt(video, frame_idx)
                 obs == analyze_frame(f)
             IN  /\ ~f.extract_raises
                      => /\ obs.has_face <=> f.detections # <<>>
                         /\ obs.landmarks # None <=> f.multi_face_landmarks # <<>>
                         /\ obs.landmarks # None
                              => obs.landmarks = f.multi_face_landmarks[1]
                 /\ f.extract_raises
                      => ~obs.has_face /\ obs.landmarks = None
                 /\ ~obs.has_face
                      => UNCHANGED <<previous_landmarks, landmark_stability_scores>>
                 /\ (f.detections = <<>> \/ f.extract_raises)
                      => UNCHANGED accumulator]_vars

\* the walk has passed a frame where only the landmark model found a face
\* and a frame where only the detector did: the first left the tracker as it
\* was, the second emptied it after a score
C26_Witness ==
    /\ pc = "walk"
    /\ Len(submitted) >= 4
    /\ \E k \in 1..Len(submitted) :
          LET f == FrameAt(video, submitted[k])
          IN  f.detections = <<>> /\ f.multi_face_landmarks # <<>>
    /\ LET g == FrameAt(video, submitted[Len(submitted)])
       IN  g.detections # <<>> /\ g.multi_face_landmarks = <<>> /\ ~g.extract_raises
    /\ previous_landmarks = None
    /\ analyzed_frames >= 2
    /\ landmark_stability_scores = <<>>

\* C27: temporary-file cleanup.  On every path after the temporary file was
\* created the file has been deleted by the time the request completes, and
\* the analysis never runs on a path that has been deleted.
C27_TempFileCleanup ==
    /\ (request.pc = "done" /\ request.temp_file # "none")
          => request.temp_file = "deleted"
    /\ (request.pc # "none" /\ pc \notin {"idle", "done"})
          => request.temp_file = "exists"

\* C28: termination.  Under fair scheduling of the event loop and the executor
\* thread, a call that has been offloaded, whatever the video, eventually is done
\* and has returned one of the three verdicts: the frame walk it goes through
\* ends.  The walk cannot go on for ever because every iteration that stays in
\* the loop reads one frame of the video, advancing frame_idx by exactly one and
\* never past the number of frames the finite video has.
C28_Termination ==
    /\ (pc \in {"offload", "open", "walk", "release", "interpret"})
           ~> (pc = "done" /\ outcome.kind = "returned" /\ outcome.verdict \in Verdicts)
    /\ [][pc = "walk"
            => \/ pc' \in {"release", "interpret"}
               \/ /\ pc' = "walk"
                  /\ frame_idx' = frame_idx + 1
                  /\ frame_idx' <= video.nframes]_vars

\* a video of the greatest length walked to its last frame and answered
C28_Witness ==
    /\ pc = "done"
    /\ outcome.kind = "returned"
    /\ outcome.verdict = "REAL"
    /\ video.nframes = MaxVideoLen
    /\ sample_interval = 2
    /\ frame_idx = MaxVideoLen
    /\ reads = MaxVideoLen + 1

NotInitialized == "RuntimeError: Deepfake detection service not initialized"

\* C29: initialization precondition.  While the service is not initialized
\* (initialize never ran, or it failed and the application went on serving),
\* a detect_deepfake call raises RuntimeError and is over at once, with no
\* video opened and no capture created; an initialized service never raises it.
\* verify_video answers a raised call with HTTP 500 and a detail message, never
\* with a verdict, after deleting the temporary file.  is_initialized turns
\* true only in a step that leaves both the landmark model and the detection
\* model constructed, and both stay constructed while it is true.
C29_InitializationPrecondition ==
    /\ [](is_initialized => face_mesh = "model" /\ face_detection = "model")
    /\ [](outcome.kind = "raised"
            => /\ outcome.exception = NotInitialized
               /\ pc = "done" /\ opens = 0 /\ cap = "none" /\ reads = 0)
    /\ [][(~is_initialized /\ is_initialized')
            => face_mesh' = "model" /\ face_detection' = "model"]_vars
    /\ [][(pc = "idle" /\ pc' # "idle")
            => IF is_initialized
               THEN pc' = "offload" /\ outcome'.kind # "raised"
               ELSE /\ outcome' = Raised(NotInitialized)
                    /\ pc' = "done" /\ opens' = 0 /\ cap' = "none"]_vars
    /\ [][(request.pc = "analyze" /\ request'.pc = "done" /\ outcome.kind = "raised")
            => /\ request'.status = 500
               /\ DOMAIN request'.body = {"detail"}
               /\ request'.temp_file = "deleted"]_vars

\* start-up failed after the landmark model was built; a valid upload was then
\* answered with 500
C29_Witness ==
    /\ ~is_initialized
    /\ face_mesh = "model"
    /\ face_detection = "none"
    /\ outcome = Raised(NotInitialized)
    /\ opens = 0
    /\ request.pc = "done"
    /\ request.status = 500
    /\ request.temp_file = "deleted"

\* the (verdict, confidence) pairs of the claim
OutcomePairs ==
    {<<"INCONCLUSIVE", R(0, 1)>>, <<"INCONCLUSIVE", R(1, 2)>>, <<"REAL", R(9, 10)>>,
     <<"FAKE", RAdd(R(1, 2), RMul(R(2, 3), R(2, 5)))>>, <<"FAKE", R(9, 10)>>}

\* C30: finite outcome set.  Every triple the pipeline returns has one of five
\* (verdict, confidence) pairs: INCONCLUSIVE with 0.0, and then the metrics
\* carry an error (or detect_deepfake caught one before it had metrics) or
\* fewer than 5 face-bearing frames; INCONCLUSIVE with 0.5,
\* and then exactly one indicator fired; REAL with 0.9 only; FAKE with
\* 0.5 + (2/3)*0.4 when two indicators fired and with 0.9 when three did.  The
\* answer of the branch guarded by total_indicators == 0 is never given.
C30_FiniteOutcomes ==
    (pc = "done" /\ outcome.kind = "returned")
        => LET fired == B2N(IndicatorA(analysis_result))
                        + B2N(IndicatorB(analysis_result))
                        + B2N(IndicatorC(analysis_result))
               gated == \/ analysis_result = None
                        \/ "error" \in DOMAIN analysis_result
                        \/ analysis_result.analyzed_frames < 5
           IN  /\ <<outcome.verdict, outcome.confidence>> \in OutcomePairs
               /\ (outcome.verdict = "INCONCLUSIVE" /\ outcome.confidence = <<0, 1>>)
                      => gated
               /\ (outcome.verdict = "INCONCLUSIVE" /\ outcome.confidence = <<1, 2>>)
                      => ~gated /\ fired = 1
               /\ outcome.verdict = "REAL"
                      => ~gated /\ outcome.confidence = <<9, 10>>
               /\ (outcome.verdict = "FAKE" /\ outcome.confidence = <<23, 30>>)
                      => ~gated /\ fired = 2
               /\ (outcome.verdict = "FAKE" /\ outcome.confidence = <<9, 10>>)
                      => ~gated /\ fired = 3
               /\ outcome.explanation.text # "Unable to analyze video content"

\* two of three indicators (variance and stability) on a full walk: FAKE at 23/30
C30_Witness ==
    /\ pc = "done"
    /\ outcome.kind = "returned"
    /\ "error" \notin DOMAIN analysis_result
    /\ analysis_result.analyzed_frames = MaxAnalyzedFrames
    /\ analysis_result.quality_variance = R(1, 4)
    /\ analysis_result.landmark_stability = R(2, 5)
    /\ analysis_result.average_face_quality = R(3, 5)
    /\ outcome.verdict = "FAKE"
    /\ outcome.confidence = <<23, 30>>

====
